---- MODULE Spec2Model ----
(***************************************************************************)
(* Server Lifecycle Manager of the Open MCP Gateway: ServerManager,        *)
(* ConnectionPool, the registry hot reload and the background sweeps, as   *)
(* given in docs/developer/contributing.md (Lifecycle Management),         *)
(* docs/developer/api-endpoints.md (route handlers) and                    *)
(* docs/developer/architecture.md (CatalogWatcher).                        *)
(*                                                                         *)
(* Every lock scope of the Rust code is one atomic action; a function that *)
(* takes several lock scopes in turn is a sequence of actions of the       *)
(* thread that runs it, its position kept in pc.                           *)
(***************************************************************************)
EXTENDS Integers, Sequences, FiniteSets, TLC

\* ---------------------------------------------------------------- bounds
Ids == {"a", "b"}
Callers == {"c1", "c2"}
Tasks == {"t1"}
MaxTime == 2
MaxCount == 2
MaxStarts == 2
MaxBurst == 2

\* ------------------------------------------------------- ManagerConfig
max_connections_per_server == 1
idle_timeout == 1

\* The debounce delay of the file watcher (500ms), in ticks of its timer.
DebounceDelay == 2

\* ------------------------------------------------------------- threads
WatcherThread == "w"
ShutdownThread == "sd"
ManualThread == "m"
HealthThread == "h"
Threads == Callers \cup Tasks \cup {WatcherThread, ShutdownThread, ManualThread,
            HealthThread}
NoId == "-"
None == -1
EmptyMap == [x \in {} |-> None]

VARIABLES
  registry,     \* the current ServerRegistry snapshot: id -> definition version
  status,       \* HashMap<String, ServerState>
  connections,  \* HashMap<String, ConnectionPool>
  now,          \* the monotonic clock Instant::now() reads
  pc,           \* position of each thread in the function it runs
  arg,          \* the server_id each thread works on
  op,           \* the public operation each caller last invoked
  result,       \* what that operation returned ("-" while in flight)
  held,         \* index of the PooledConnection a caller holds, None if none
  closed,       \* the held connection was closed under its holder by close_all
  seen,         \* startCount of arg when get_connection read it Stopped, kept
                \* until the call enters start_server
  startCount,   \* start attempts (Stopped -> Starting transitions) per id
  hpc,          \* health checker: id whose failed probe is being marked, or NoId
  reload,       \* the watcher's last/ongoing reload
  snap,         \* <<r>>: the Arc<ServerRegistry> a list_servers call cloned; <<>>: none
  listed,       \* the servers that call has collected so far: id -> definition
  file,         \* the catalog file as it is on disk
  timer,        \* debounce timer: ticks left before the load, None if unarmed
  quiet,        \* ticks since the last change of the file (up to the delay)
  burst,        \* changes of the file since the debounce timer was last unarmed
  config,       \* the gateway configuration (config.yaml), fixed at startup
  shutdown,     \* shutdown_all: the server ids still to stop and its result
  order,        \* the ids registry.all() has yielded to list_servers so far
  msg,          \* an McpMessage: its version, and which of its optional
                \* fields are present
  shapes,       \* <<S>>: the shapes the is_* predicates report for msg;
                \* <<>>: not asked yet
  request,      \* an HTTP request as AuthMiddleware::call receives it: its
                \* path and its two headers (<<>>: header absent)
  response,     \* what the middleware answers: "-" before the call
  manual        \* a reload_catalog call: the id sets update_registry keeps,
                \* the ids still to stop, its result, <<counts>> once returned

vars == <<registry, status, connections, now, pc, arg, op, result, held,
          closed, seen, startCount, hpc, reload, snap, listed, file, timer,
          quiet, burst, config, shutdown, order, msg, shapes, request,
          response, manual>>

\* The variables the Manager and the watcher leave alone.
ext == <<config, shutdown, order, msg, shapes, request, response, manual>>

\* ------------------------------------------------------- ServerStatus
Stopped == "Stopped"
Starting == "Starting"
Running == "Running"
Unhealthy == "Unhealthy"
ShuttingDown == "ShuttingDown"
ServerStatus == {Stopped, Starting, Running, Unhealthy, ShuttingDown}

\* A fresh ServerState, created the first time a server is started.
NewServerState ==
  [status |-> Stopped, started_at |-> None, last_activity |-> now,
   request_count |-> 0, error_count |-> 0]

HasState(id) == id \in DOMAIN status
HasPool(id) == id \in DOMAIN connections

\* f with key k bound to v (HashMap::insert) and with key k dropped (remove).
MapPut(f, k, v) == [x \in DOMAIN f \cup {k} |-> IF x = k THEN v ELSE f[x]]
MapRemove(f, k) == [x \in DOMAIN f \ {k} |-> f[x]]

\* The status a reader is shown for id: a server without ServerState reads
\* as Stopped.
StatusOf(id) == IF HasState(id) THEN status[id].status ELSE Stopped

\* ------------------------------------------------------ ConnectionPool
\* connections is the length of the Vec (indices 0..connections-1 are live),
\* available the VecDeque of idle indices, runtime the Arc<dyn Runtime> the
\* pool was built with.
PoolNew(runtime) ==
  [connections |-> 0, available |-> <<>>,
   max_size |-> max_connections_per_server, runtime |-> runtime]

\* ConnectionPool::get without the `connections.len() < max_size` test.
PoolGetNoLimit(pool, connectOk) ==
  IF pool.available # <<>>
    THEN [res |-> "ok", idx |-> Head(pool.available),
          pool |-> [pool EXCEPT !.available = Tail(@)]]
  ELSE IF connectOk
    THEN [res |-> "ok", idx |-> pool.connections,
          pool |-> [pool EXCEPT !.connections = @ + 1]]
  ELSE [res |-> "RuntimeError", idx |-> None, pool |-> pool]

\* ConnectionPool::get reading available.front() where it should pop_front().
PoolGetNoPop(pool, connectOk) ==
  IF pool.available # <<>>
    THEN [res |-> "ok", idx |-> Head(pool.available), pool |-> pool]
  ELSE IF pool.connections < pool.max_size
    THEN IF connectOk
           THEN [res |-> "ok", idx |-> pool.connections,
                 pool |-> [pool EXCEPT !.connections = @ + 1]]
           ELSE [res |-> "RuntimeError", idx |-> None, pool |-> pool]
  ELSE [res |-> "wait", idx |-> None, pool |-> pool]
\* ConnectionPool::get handing out a connection that is checked out when the
\* pool is at max_size, where it should wait.
PoolGetShareBusy(pool, connectOk) ==
  IF pool.available # <<>>
    THEN [res |-> "ok", idx |-> Head(pool.available),
          pool |-> [pool EXCEPT !.available = Tail(@)]]
  ELSE IF pool.connections < pool.max_size
    THEN IF connectOk
           THEN [res |-> "ok", idx |-> pool.connections,
                 pool |-> [pool EXCEPT !.connections = @ + 1]]
           ELSE [res |-> "RuntimeError", idx |-> None, pool |-> pool]
  ELSE [res |-> "ok", idx |-> 0, pool |-> pool]

\* ConnectionPool::get up to the point it would have to wait.
PoolGet(pool, connectOk) ==
  IF pool.available # <<>>
    THEN [res |-> "ok", idx |-> Head(pool.available),
          pool |-> [pool EXCEPT !.available = Tail(@)]]
  ELSE IF pool.connections < pool.max_size
    THEN IF connectOk
           THEN [res |-> "ok", idx |-> pool.connections,
                 pool |-> [pool EXCEPT !.connections = @ + 1]]
           ELSE [res |-> "RuntimeError", idx |-> None, pool |-> pool]
  ELSE [res |-> "wait", idx |-> None, pool |-> pool]

\* ConnectionPool::release
PoolRelease(pool, idx) == [pool EXCEPT !.available = Append(@, idx)]

\* Callers that hold the connections read lock while they wait in
\* ConnectionPool::get; a writer of the connections map waits for them.
PoolWaiters == {c \in Callers : pc[c] = "acq_poolwait"}

\* Threads that hold the connections write lock while they await close_all
\* in stop_server; every reader and writer of the map waits for them.
Closers == {t \in Threads : pc[t] = "sp_closing"}

ConnectionsWritable == PoolWaiters = {} /\ Closers = {}
ConnectionsReadable == Closers = {}

\* check_server_health holds the status read lock while ping_server is
\* awaited; every writer of the status map waits for it.
StatusWritable == pc[HealthThread] # "hc_probing"

\* Acquires of id that are past get_status and have not yet run touch.
InFlightAcquires(id) ==
  {c \in Callers : arg[c] = id /\ op[c] = "acquire" /\ pc[c] \in
     {"st_begin", "st_connect", "st_finish_ok", "st_finish_err", "st_join",
      "acq_wait", "acq_pool", "acq_poolwait", "acq_touch"}}

\* Threads about to enter start_server for id.
PendingStarts(id) == {c \in Callers : arg[c] = id /\ pc[c] = "st_begin"}

RequestCount(id) == IF HasState(id) THEN status[id].request_count ELSE 0

\* ---------------------------------------------------------------- Init
InitialRegistry == [id \in {"a"} |-> "local-process"]

\* The catalog file the gateway was started with.
InitialCatalog ==
  [syntax_ok |-> TRUE,
   servers |-> <<[id |-> "a", runtime |-> "local-process"]>>]

\* config.yaml as the model runs it unless a specification says otherwise.
DefaultConfig == [hot_reload |-> TRUE, idle_timeout_seconds |-> idle_timeout]
\* The counts update_registry would take from the registry as it is when
\* the stops are done, instead of from the new registry it was given.
ReloadCountsReread(old_ids, new_ids) ==
  [total |-> Cardinality(DOMAIN registry),
   added |-> Cardinality(DOMAIN registry \ old_ids),
   removed |-> Cardinality(old_ids \ DOMAIN registry)]

\* update_registry's `added`, `removed.len()` and `new_ids.len()`, which
\* reload_catalog answers as servers_added, servers_removed, servers_loaded.
ReloadCounts(old_ids, new_ids) ==
  [total |-> Cardinality(new_ids),
   added |-> Cardinality(new_ids \ old_ids),
   removed |-> Cardinality(old_ids \ new_ids)]

\* No reload_catalog call has been made.
NoReload ==
  [old_ids |-> {}, new_ids |-> {}, pending |-> {}, result |-> "-",
   report |-> <<>>]

\* The Manager, the watcher and the handlers right after construction, with
\* registry r and catalog file f on disk.
InitFrom(r, f) ==
  /\ registry = r
  /\ status = EmptyMap
  /\ connections = EmptyMap
  /\ now = 0
  /\ pc = [t \in Threads |-> "idle"]
  /\ arg = [t \in Threads |-> NoId]
  /\ op = [c \in Callers |-> "-"]
  /\ result = [c \in Callers |-> "-"]
  /\ held = [c \in Callers |-> None]
  /\ closed = [c \in Callers |-> FALSE]
  /\ seen = [c \in Callers |-> None]
  /\ startCount = [id \in Ids |-> 0]
  /\ hpc = NoId
  /\ reload = [result |-> "-", old |-> {}, pending |-> {}]
  /\ snap = <<>>
  /\ listed = EmptyMap
  /\ file = f
  /\ timer = None
  /\ quiet = DebounceDelay
  /\ burst = 0
  /\ shutdown = [pending |-> {}, result |-> "-"]
  /\ order = <<>>
  /\ manual = NoReload

InitWith(f) == InitFrom(InitialRegistry, f)

InitState == InitWith(InitialCatalog)

\* No message and no HTTP request under examination.
NoMessage ==
  /\ msg = [jsonrpc |-> "2.0", id |-> FALSE, method |-> FALSE,
            params |-> FALSE, result |-> FALSE, error |-> FALSE]
  /\ shapes = <<>>

NoRequest ==
  /\ request = [path |-> "/health", authorization |-> <<>>, x_api_key |-> <<>>]
  /\ response = "-"

Init ==
  /\ InitState
  /\ config = DefaultConfig
  /\ NoMessage
  /\ NoRequest


\* ------------------------------------------------- returning to a caller
\* A route handler (or get_connection) of caller c returns res.
Return(c, res) ==
  /\ pc' = [pc EXCEPT ![c] = "idle"]
  /\ result' = [result EXCEPT ![c] = res]
\* start_server returns res to its caller: get_connection goes on to
\* wait_for_ready unless the `?` propagates an error; the start handler
\* answers.
StartReturn(c, res) ==
  IF op[c] = "acquire" /\ res \in {"ok", "AlreadyRunning"}
    THEN /\ pc' = [pc EXCEPT ![c] = "acq_wait"]
         /\ result' = result
    ELSE Return(c, res)

\* ------------------------------------------ ServerManager::get_status
\* Err(ServerNotFound) for an id the registry does not define, else the
\* recorded status (Stopped when no ServerState exists yet).
GetStatus(id) == IF id \in DOMAIN registry THEN StatusOf(id) ELSE "NotFound"

\* -------------------------------------- ServerManager::get_connection
\* `let status = self.get_status(server_id).await?` and the auto-start test.
AcqBegin(c, id) ==
  /\ pc[c] = "idle"
  /\ op' = [op EXCEPT ![c] = "acquire"]
  /\ arg' = [arg EXCEPT ![c] = id]
  /\ LET st == GetStatus(id) IN
       IF st = "NotFound"
         THEN /\ Return(c, "NotFound")
              /\ seen' = [seen EXCEPT ![c] = None]
         ELSE /\ RequestCount(id) + Cardinality(InFlightAcquires(id)) < MaxCount
              /\ result' = [result EXCEPT ![c] = "-"]
              /\ IF st = Stopped
                   THEN /\ startCount[id] + Cardinality(PendingStarts(id)) < MaxStarts
                        /\ pc' = [pc EXCEPT ![c] = "st_begin"]
                        /\ seen' = [seen EXCEPT ![c] = startCount[id]]
                   ELSE /\ pc' = [pc EXCEPT ![c] = "acq_wait"]
                        /\ seen' = [seen EXCEPT ![c] = None]
  /\ UNCHANGED <<registry, status, connections, now, held, closed,
                 startCount, hpc, reload>>
  /\ UNCHANGED <<snap, listed, file, timer, quiet, burst>>
  /\ UNCHANGED ext

\* ------------------------------------------ ServerManager::start_server
\* First lock scope: the Stopped -> Starting transition, exclusive per id.
StBegin(c) ==
  /\ pc[c] = "st_begin"
  /\ StatusWritable
  /\ LET id == arg[c]
         st == GetStatus(id) IN
       CASE st = "NotFound" ->
              /\ Return(c, "NotFound")
              /\ UNCHANGED <<status, startCount>>
         [] st = Stopped ->
              /\ status' = MapPut(status, id,
                   [(IF HasState(id) THEN status[id] ELSE NewServerState)
                      EXCEPT !.status = Starting])
              /\ startCount' = [startCount EXCEPT ![id] = @ + 1]
              /\ pc' = [pc EXCEPT ![c] = "st_connect"]
              /\ result' = result
         [] st = Starting ->
              /\ pc' = [pc EXCEPT ![c] = "st_join"]
              /\ UNCHANGED <<status, startCount, result>>
         [] st = Running ->
              /\ StartReturn(c, "AlreadyRunning")
              /\ UNCHANGED <<status, startCount>>
         [] OTHER ->
              /\ StartReturn(c, "StartFailed")
              /\ UNCHANGED <<status, startCount>>
  /\ seen' = [seen EXCEPT ![c] = None]
  /\ UNCHANGED <<registry, connections, now, arg, op, held, closed, hpc,
                 reload>>
  /\ UNCHANGED <<snap, listed, file, timer, quiet, burst>>
  /\ UNCHANGED ext

\* Second scope: the runtime of the server's definition establishes one
\* connection through the pool, which is handed back to the pool.
StConnect(c) ==
  /\ pc[c] = "st_connect"
  /\ ConnectionsWritable
  /\ \E connectOk \in BOOLEAN :
       LET id == arg[c]
           defined == id \in DOMAIN registry
           pool == IF HasPool(id) THEN connections[id]
                   ELSE PoolNew(IF defined THEN registry[id] ELSE "-")
           got == PoolGet(pool, connectOk /\ defined) IN
         /\ got.res # "wait"
         /\ IF got.res = "ok"
              THEN /\ connections' = MapPut(connections, id,
                                            PoolRelease(got.pool, got.idx))
                   /\ pc' = [pc EXCEPT ![c] = "st_finish_ok"]
              ELSE /\ connections' = connections
                   /\ pc' = [pc EXCEPT ![c] = "st_finish_err"]
  /\ UNCHANGED <<registry, status, now, arg, op, result, held, closed, seen,
                 startCount, hpc, reload>>
  /\ UNCHANGED <<snap, listed, file, timer, quiet, burst>>
  /\ UNCHANGED ext

\* Third scope: Starting -> Running with started_at, or back to Stopped.
StFinish(c) ==
  /\ pc[c] \in {"st_finish_ok", "st_finish_err"}
  /\ StatusWritable
  /\ LET id == arg[c]
         ok == pc[c] = "st_finish_ok" IN
       /\ status' = IF ~HasState(id) THEN status
                    ELSE IF ok
                      THEN [status EXCEPT ![id].status = Running,
                                          ![id].started_at = now]
                      ELSE [status EXCEPT ![id].status = Stopped]
       /\ StartReturn(c, IF ok THEN "ok" ELSE "StartFailed")
  /\ UNCHANGED <<registry, connections, now, arg, op, held, closed, seen,
                 startCount, hpc, reload>>
  /\ UNCHANGED <<snap, listed, file, timer, quiet, burst>>
  /\ UNCHANGED ext

\* A caller that found another start in flight receives that start's outcome.
StJoin(c) ==
  /\ pc[c] = "st_join"
  /\ StatusOf(arg[c]) # Starting
  /\ StartReturn(c, IF StatusOf(arg[c]) = Running THEN "ok" ELSE "StartFailed")
  /\ UNCHANGED <<registry, status, connections, now, arg, op, held, closed, seen, startCount, hpc, reload>>
  /\ UNCHANGED <<snap, listed, file, timer, quiet, burst>>
  /\ UNCHANGED ext

\* ------------------------------------------------------ wait_for_ready
WaitReady(c) ==
  /\ pc[c] = "acq_wait"
  /\ StatusOf(arg[c]) = Running
  /\ pc' = [pc EXCEPT ![c] = "acq_pool"]
  /\ UNCHANGED <<registry, status, connections, now, arg, op, result, held,
                 closed, seen, startCount, hpc, reload>>
  /\ UNCHANGED <<snap, listed, file, timer, quiet, burst>>
  /\ UNCHANGED ext

\* wait_for_ready without its timer: the wait ends only when the server
\* runs.
WaitTimeoutNever(c) ==
  /\ pc[c] = "acq_wait"
  /\ FALSE
  /\ UNCHANGED vars

WaitTimeout(c) ==
  /\ pc[c] = "acq_wait"
  /\ StatusOf(arg[c]) # Running
  /\ Return(c, "Timeout")
  /\ UNCHANGED <<registry, status, connections, now, arg, op, held, closed, seen, startCount, hpc, reload>>
  /\ UNCHANGED <<snap, listed, file, timer, quiet, burst>>
  /\ UNCHANGED ext

\* ---------------------- get_connection: connection from the pool, touch
AcqPool(c) ==
  /\ pc[c] = "acq_pool"
  /\ ConnectionsReadable
  /\ LET id == arg[c] IN
       IF ~HasPool(id)
         THEN /\ Return(c, "NotFound")
              /\ UNCHANGED <<connections, held>>
         ELSE \E connectOk \in BOOLEAN :
                LET got == PoolGet(connections[id], connectOk) IN
                  CASE got.res = "ok" ->
                         /\ connections' = [connections EXCEPT ![id] = got.pool]
                         /\ held' = [held EXCEPT ![c] = got.idx]
                         /\ pc' = [pc EXCEPT ![c] = "acq_touch"]
                         /\ result' = result
                    [] got.res = "RuntimeError" ->
                         /\ Return(c, "RuntimeError")
                         /\ UNCHANGED <<connections, held>>
                    [] OTHER ->
                         /\ pc' = [pc EXCEPT ![c] = "acq_poolwait"]
                         /\ UNCHANGED <<connections, held, result>>
  /\ UNCHANGED <<registry, status, now, arg, op, closed, seen, startCount,
                 hpc, reload>>
  /\ UNCHANGED <<snap, listed, file, timer, quiet, burst>>
  /\ UNCHANGED ext

\* The wait of ConnectionPool::get on a saturated pool: a released
\* connection is handed to the waiter.
PoolWaitGet(c) ==
  /\ pc[c] = "acq_poolwait"
  /\ LET id == arg[c] IN
       /\ HasPool(id)
       /\ connections[id].available # <<>>
       /\ held' = [held EXCEPT ![c] = Head(connections[id].available)]
       /\ connections' = [connections EXCEPT ![id].available = Tail(@)]
  /\ pc' = [pc EXCEPT ![c] = "acq_touch"]
  /\ UNCHANGED <<registry, status, now, arg, op, result, closed, seen,
                 startCount, hpc, reload>>
  /\ UNCHANGED <<snap, listed, file, timer, quiet, burst>>
  /\ UNCHANGED ext

\* ... or the wait times out with PoolExhausted.
PoolWaitTimeout(c) ==
  /\ pc[c] = "acq_poolwait"
  /\ Return(c, "PoolExhausted")
  /\ UNCHANGED <<registry, status, connections, now, arg, op, held, closed, seen, startCount, hpc, reload>>
  /\ UNCHANGED <<snap, listed, file, timer, quiet, burst>>
  /\ UNCHANGED ext

\* ServerManager::touch, after which get_connection returns Ok(connection).
Touch(c) ==
  /\ pc[c] = "acq_touch"
  /\ StatusWritable
  /\ LET id == arg[c] IN
       status' = IF HasState(id)
                   THEN [status EXCEPT ![id].last_activity = now,
                                       ![id].request_count = @ + 1]
                   ELSE status
  /\ pc' = [pc EXCEPT ![c] = "holding"]
  /\ result' = [result EXCEPT ![c] = "ok"]
  /\ UNCHANGED <<registry, connections, now, arg, op, held, closed, seen,
                 startCount, hpc, reload>>
  /\ UNCHANGED <<snap, listed, file, timer, quiet, burst>>
  /\ UNCHANGED ext

\* The handler's exchange ends and its PooledConnection is dropped:
\* ConnectionPool::release(idx), unless close_all closed it meanwhile.
Release(c) ==
  /\ pc[c] = "holding"
  /\ LET id == arg[c] IN
       connections' = IF ~closed[c] /\ HasPool(id)
                        THEN [connections EXCEPT
                                ![id] = PoolRelease(@, held[c])]
                        ELSE connections
  /\ held' = [held EXCEPT ![c] = None]
  /\ closed' = [closed EXCEPT ![c] = FALSE]
  /\ pc' = [pc EXCEPT ![c] = "idle"]
  /\ UNCHANGED <<registry, status, now, arg, op, result, seen, startCount,
                 hpc, reload>>
  /\ UNCHANGED <<snap, listed, file, timer, quiet, burst>>
  /\ UNCHANGED ext

\* Route handler mcp_request after get_connection: `connection.send(..)?`
\* or `connection.recv()?..?` fails, the handler returns the error and its
\* PooledConnection is dropped. (Release is the exchange that succeeds.)
ExchangeFail(c) ==
  /\ pc[c] = "holding"
  /\ LET id == arg[c] IN
       connections' = IF ~closed[c] /\ HasPool(id)
                        THEN [connections EXCEPT
                                ![id] = PoolRelease(@, held[c])]
                        ELSE connections
  /\ held' = [held EXCEPT ![c] = None]
  /\ closed' = [closed EXCEPT ![c] = FALSE]
  /\ pc' = [pc EXCEPT ![c] = "idle"]
  /\ result' = [result EXCEPT ![c] = "ExchangeFailed"]
  /\ UNCHANGED <<registry, status, now, arg, op, seen, startCount, hpc,
                 reload>>
  /\ UNCHANGED <<snap, listed, file, timer, quiet, burst>>
  /\ UNCHANGED ext
\* BackendConnection::recv under tokio::time::timeout: the response has not
\* arrived when the timeout elapses, recv returns the "Receive timeout"
\* error, mcp_request returns it through `?` and its PooledConnection is
\* dropped, which releases the connection as after any other exchange.
RecvTimeout(c) ==
  /\ pc[c] = "holding"
  /\ LET id == arg[c] IN
       connections' = IF ~closed[c] /\ HasPool(id)
                        THEN [connections EXCEPT
                                ![id] = PoolRelease(@, held[c])]
                        ELSE connections
  /\ held' = [held EXCEPT ![c] = None]
  /\ closed' = [closed EXCEPT ![c] = FALSE]
  /\ pc' = [pc EXCEPT ![c] = "idle"]
  /\ result' = [result EXCEPT ![c] = "Timeout"]
  /\ UNCHANGED <<registry, status, now, arg, op, seen, startCount, hpc,
                 reload>>
  /\ UNCHANGED <<snap, listed, file, timer, quiet, burst>>
  /\ UNCHANGED ext

\* ------------------------------------------- route handler start_server
\* The start handler without its `registry.contains(&id)` test.
HttpStartBeginUnchecked(c, id) ==
  /\ pc[c] = "idle"
  /\ op' = [op EXCEPT ![c] = "start"]
  /\ arg' = [arg EXCEPT ![c] = id]
  /\ seen' = [seen EXCEPT ![c] = None]
  /\ IF StatusOf(id) = Running
       THEN Return(c, "AlreadyRunning")
       ELSE /\ startCount[id] + Cardinality(PendingStarts(id)) < MaxStarts
            /\ pc' = [pc EXCEPT ![c] = "st_begin"]
            /\ result' = [result EXCEPT ![c] = "-"]
  /\ UNCHANGED <<registry, status, connections, now, held, closed,
                 startCount, hpc, reload>>
  /\ UNCHANGED <<snap, listed, file, timer, quiet, burst>>
  /\ UNCHANGED ext
\* The start handler without its test for a server that already runs.
HttpStartBeginNoStatus(c, id) ==
  /\ pc[c] = "idle"
  /\ op' = [op EXCEPT ![c] = "start"]
  /\ arg' = [arg EXCEPT ![c] = id]
  /\ seen' = [seen EXCEPT ![c] = None]
  /\ IF id \notin DOMAIN registry
       THEN Return(c, "NotFound")
       ELSE /\ startCount[id] + Cardinality(PendingStarts(id)) < MaxStarts
            /\ pc' = [pc EXCEPT ![c] = "st_begin"]
            /\ result' = [result EXCEPT ![c] = "-"]
  /\ UNCHANGED <<registry, status, connections, now, held, closed,
                 startCount, hpc, reload>>
  /\ UNCHANGED <<snap, listed, file, timer, quiet, burst>>
  /\ UNCHANGED ext

\* registry.contains, get_status and the already-running answer; only then
\* manager.start_server.
HttpStartBegin(c, id) ==
  /\ pc[c] = "idle"
  /\ op' = [op EXCEPT ![c] = "start"]
  /\ arg' = [arg EXCEPT ![c] = id]
  /\ seen' = [seen EXCEPT ![c] = None]
  /\ IF id \notin DOMAIN registry
       THEN Return(c, "NotFound")
       ELSE IF GetStatus(id) = Running
         THEN Return(c, "AlreadyRunning")
         ELSE /\ startCount[id] + Cardinality(PendingStarts(id)) < MaxStarts
              /\ pc' = [pc EXCEPT ![c] = "st_begin"]
              /\ result' = [result EXCEPT ![c] = "-"]
  /\ UNCHANGED <<registry, status, connections, now, held, closed,
                 startCount, hpc, reload>>
  /\ UNCHANGED <<snap, listed, file, timer, quiet, burst>>
  /\ UNCHANGED ext
\* The stop handler without its test for a server that is already stopped.
HttpStopBeginNoStatus(c, id) ==
  /\ pc[c] = "idle"
  /\ op' = [op EXCEPT ![c] = "stop"]
  /\ arg' = [arg EXCEPT ![c] = id]
  /\ seen' = [seen EXCEPT ![c] = None]
  /\ IF GetStatus(id) = "NotFound"
       THEN Return(c, "NotFound")
       ELSE /\ pc' = [pc EXCEPT ![c] = "sp_begin"]
            /\ result' = [result EXCEPT ![c] = "-"]
  /\ UNCHANGED <<registry, status, connections, now, held, closed,
                 startCount, hpc, reload>>
  /\ UNCHANGED <<snap, listed, file, timer, quiet, burst>>
  /\ UNCHANGED ext

\* -------------------------------------------- route handler stop_server
HttpStopBegin(c, id) ==
  /\ pc[c] = "idle"
  /\ op' = [op EXCEPT ![c] = "stop"]
  /\ arg' = [arg EXCEPT ![c] = id]
  /\ seen' = [seen EXCEPT ![c] = None]
  /\ LET st == GetStatus(id) IN
       IF st = "NotFound" THEN Return(c, "NotFound")
       ELSE IF st = Stopped THEN Return(c, "AlreadyStopped")
       ELSE /\ pc' = [pc EXCEPT ![c] = "sp_begin"]
            /\ result' = [result EXCEPT ![c] = "-"]
  /\ UNCHANGED <<registry, status, connections, now, held, closed,
                 startCount, hpc, reload>>
  /\ UNCHANGED <<snap, listed, file, timer, quiet, burst>>
  /\ UNCHANGED ext

\* -------------------------------------------- ServerManager::stop_server
\* stop_server returns res to thread t: a route handler answers, a spawned
\* idle-stop task ends, update_registry goes on to the next removed id,
\* shutdown_all goes on to the next server id unless the `?` propagates an
\* error out of its loop.
StopReturn(t, res) ==
  LET rest == reload.pending \ {arg[t]}
      left == shutdown.pending \ {arg[t]}
      mrest == manual.pending \ {arg[t]}
      more == \/ t = WatcherThread /\ rest # {}
              \/ t = ShutdownThread /\ res = "ok" /\ left # {}
              \/ t = ManualThread /\ mrest # {}
      todo == IF t = WatcherThread THEN rest
              ELSE IF t = ManualThread THEN mrest ELSE left IN
    /\ result' = IF t \in Callers THEN [result EXCEPT ![t] = res] ELSE result
    /\ reload' = IF t = WatcherThread
                   THEN [reload EXCEPT !.pending = rest,
                           !.result = IF rest = {} THEN "ok" ELSE "-"]
                   ELSE reload
    /\ shutdown' = IF t # ShutdownThread THEN shutdown
                   ELSE IF res # "ok" THEN [shutdown EXCEPT !.result = res]
                   ELSE [pending |-> left,
                         result |-> IF left = {} THEN "ok" ELSE "-"]
    /\ manual' = IF t # ManualThread THEN manual
                 ELSE IF mrest # {} THEN [manual EXCEPT !.pending = mrest]
                 ELSE [manual EXCEPT
                         !.pending = {},
                         !.result = "ok",
                         !.report = <<ReloadCounts(manual.old_ids,
                                                   manual.new_ids)>>]
    /\ IF more
         THEN \E nxt \in todo :
                /\ pc' = [pc EXCEPT ![t] = "sp_begin"]
                /\ arg' = [arg EXCEPT ![t] = nxt]
         ELSE /\ pc' = [pc EXCEPT ![t] = "idle"]
              /\ arg' = IF t \in Callers THEN arg
                        ELSE [arg EXCEPT ![t] = NoId]

\* "Update status": ShuttingDown, whatever the status was.
StopBegin(t) ==
  /\ pc[t] = "sp_begin"
  /\ StatusWritable
  /\ LET id == arg[t] IN
       status' = IF HasState(id)
                   THEN [status EXCEPT ![id].status = ShuttingDown]
                   ELSE status
  /\ pc' = [pc EXCEPT ![t] = "sp_close"]
  /\ UNCHANGED <<registry, connections, now, arg, op, result, held, closed, seen, startCount, hpc, reload>>
  /\ UNCHANGED <<snap, listed, file, timer, quiet, burst>>
  /\ UNCHANGED ext

\* ConnectionPool::close_all on pool: every connection is closed, the
\* checked-out ones under their holders.
CloseAll(id) ==
  [c \in Callers |-> closed[c] \/ (held[c] # None /\ arg[c] = id)]

\* stop_server whose close leaves the checked-out connections to their
\* holders without a word.
StopCloseSilent(t) ==
  /\ pc[t] = "sp_close"
  /\ ConnectionsWritable
  /\ LET id == arg[t] IN
       IF HasPool(id)
         THEN /\ connections' = MapRemove(connections, id)
              /\ closed' = closed
              /\ \E closeOk \in BOOLEAN :
                   IF closeOk
                     THEN /\ pc' = [pc EXCEPT ![t] = "sp_final"]
                          /\ UNCHANGED <<arg, result, reload, shutdown, manual>>
                     ELSE StopReturn(t, "StopFailed")
         ELSE /\ pc' = [pc EXCEPT ![t] = "sp_final"]
              /\ UNCHANGED <<connections, closed, arg, result, reload,
                             shutdown, manual>>
  /\ UNCHANGED <<registry, status, now, op, held, seen, startCount, hpc>>
  /\ UNCHANGED <<snap, listed, file, timer, quiet, burst>>
  /\ UNCHANGED <<config, order, msg, shapes, request, response>>

\* "Close all connections": the pool leaves the map and is closed; an error
\* of close_all leaves stop_server through `?`.
StopClose(t) ==
  /\ pc[t] = "sp_close"
  /\ ConnectionsWritable
  /\ LET id == arg[t] IN
       IF HasPool(id)
         THEN /\ connections' = MapRemove(connections, id)
              /\ closed' = CloseAll(id)
              /\ \E closeOk \in BOOLEAN :
                   IF closeOk
                     THEN /\ pc' = [pc EXCEPT ![t] = "sp_final"]
                          /\ UNCHANGED <<arg, result, reload, shutdown, manual>>
                     ELSE StopReturn(t, "StopFailed")
         ELSE /\ pc' = [pc EXCEPT ![t] = "sp_final"]
              /\ UNCHANGED <<connections, closed, arg, result, reload,
                             shutdown, manual>>
  /\ UNCHANGED <<registry, status, now, op, held, seen, startCount, hpc>>
  /\ UNCHANGED <<snap, listed, file, timer, quiet, burst>>
  /\ UNCHANGED <<config, order, msg, shapes, request, response>>
\* "Close all connections" when close_all takes its time, in two steps. The
\* first: connections.write() is taken and the pool leaves the map; the
\* lock is held while close_all is awaited.
StopCloseBegin(t) ==
  /\ pc[t] = "sp_close"
  /\ ConnectionsWritable
  /\ LET id == arg[t] IN
       IF HasPool(id)
         THEN /\ connections' = MapRemove(connections, id)
              /\ pc' = [pc EXCEPT ![t] = "sp_closing"]
         ELSE /\ connections' = connections
              /\ pc' = [pc EXCEPT ![t] = "sp_final"]
  /\ UNCHANGED <<registry, status, now, arg, op, result, held, closed, seen,
                 startCount, hpc, reload>>
  /\ UNCHANGED <<snap, listed, file, timer, quiet, burst>>
  /\ UNCHANGED ext
\* stop_server keeping the connections write lock until its final status
\* is written: close_all returns only when the status map can be written.
StopCloseEndHoldingLock(t) ==
  /\ pc[t] = "sp_closing"
  /\ StatusWritable
  /\ closed' = CloseAll(arg[t])
  /\ \E closeOk \in BOOLEAN :
       IF closeOk
         THEN /\ pc' = [pc EXCEPT ![t] = "sp_final"]
              /\ UNCHANGED <<arg, result, reload, shutdown, manual>>
         ELSE StopReturn(t, "StopFailed")
  /\ UNCHANGED <<registry, status, connections, now, op, held, seen,
                 startCount, hpc>>
  /\ UNCHANGED <<snap, listed, file, timer, quiet, burst>>
  /\ UNCHANGED <<config, order, msg, shapes, request, response>>

\* The second: close_all returns, with an error or without, and the lock is
\* released.
StopCloseEnd(t) ==
  /\ pc[t] = "sp_closing"
  /\ closed' = CloseAll(arg[t])
  /\ \E closeOk \in BOOLEAN :
       IF closeOk
         THEN /\ pc' = [pc EXCEPT ![t] = "sp_final"]
              /\ UNCHANGED <<arg, result, reload, shutdown, manual>>
         ELSE StopReturn(t, "StopFailed")
  /\ UNCHANGED <<registry, status, connections, now, op, held, seen,
                 startCount, hpc>>
  /\ UNCHANGED <<snap, listed, file, timer, quiet, burst>>
  /\ UNCHANGED <<config, order, msg, shapes, request, response>>

\* "Update final status": Stopped, started_at cleared.
StopFinal(t) ==
  /\ pc[t] = "sp_final"
  /\ StatusWritable
  /\ LET id == arg[t] IN
       status' = IF HasState(id)
                   THEN [status EXCEPT ![id].status = Stopped,
                                       ![id].started_at = None]
                   ELSE status
  /\ StopReturn(t, "ok")
  /\ UNCHANGED <<registry, connections, now, op, held, closed, seen,
                 startCount, hpc>>
  /\ UNCHANGED <<snap, listed, file, timer, quiet, burst>>
  /\ UNCHANGED <<config, order, msg, shapes, request, response>>
\* ------------------------------------------- ServerManager::shutdown_all
\* The server ids are collected under the status read lock and stop_server
\* is called on the first of them.
ShutdownBegin ==
  /\ pc[ShutdownThread] = "idle"
  /\ shutdown = [pending |-> {}, result |-> "-"]
  /\ IF DOMAIN status = {}
       THEN /\ shutdown' = [pending |-> {}, result |-> "ok"]
            /\ UNCHANGED <<pc, arg>>
       ELSE /\ shutdown' = [pending |-> DOMAIN status, result |-> "-"]
            /\ \E id \in DOMAIN status :
                 /\ pc' = [pc EXCEPT ![ShutdownThread] = "sp_begin"]
                 /\ arg' = [arg EXCEPT ![ShutdownThread] = id]
  /\ UNCHANGED <<registry, status, connections, now, op, result, held, closed,
                 seen, startCount, hpc, reload>>
  /\ UNCHANGED <<snap, listed, file, timer, quiet, burst>>
  /\ UNCHANGED <<config, order, msg, shapes, request, response, manual>>

\* ------------------------------------ ServerManager::check_idle_servers
\* ManagerConfig::from(&config): idle_timeout_seconds as a Duration.
ManagerConfigFrom(cfg) == [idle_timeout |-> cfg.idle_timeout_seconds]

IdleServers ==
  {id \in DOMAIN status :
     /\ status[id].status = Running
     /\ now - status[id].last_activity
          > ManagerConfigFrom(config).idle_timeout}

FreeTasks == {t \in Tasks : pc[t] = "idle"}

\* One sweep under the status read lock: a stop task is spawned for every
\* idle Running server; the sweep itself awaits none of them.
CheckIdleServers ==
  /\ IdleServers # {}
  /\ Cardinality(FreeTasks) >= Cardinality(IdleServers)
  /\ LET spawn == CHOOSE f \in [IdleServers -> FreeTasks] :
                    \A x, y \in IdleServers : f[x] = f[y] => x = y
         spawned == {spawn[id] : id \in IdleServers}
         idOf(t) == CHOOSE id \in IdleServers : spawn[id] = t IN
       /\ pc' = [t \in Threads |-> IF t \in spawned THEN "sp_begin" ELSE pc[t]]
       /\ arg' = [t \in Threads |-> IF t \in spawned THEN idOf(t) ELSE arg[t]]
  /\ UNCHANGED <<registry, status, connections, now, op, result, held, closed, seen, startCount, hpc, reload>>
  /\ UNCHANGED <<snap, listed, file, timer, quiet, burst>>
  /\ UNCHANGED ext

\* ------------------------------------ ServerManager::check_server_health
\* A Running server whose ping fails (no pool, or pool.is_healthy() false).
HealthProbeFails(id) ==
  /\ hpc = NoId
  /\ HasState(id)
  /\ status[id].status = Running
  /\ hpc' = id
  /\ UNCHANGED <<registry, status, connections, now, pc, arg, op, result,
                 held, closed, seen, startCount, reload>>
  /\ UNCHANGED <<snap, listed, file, timer, quiet, burst>>
  /\ UNCHANGED ext
\* check_server_health reaches a Running server: with status.read() held,
\* ping_server is called.
HealthProbeBegin(id) ==
  /\ pc[HealthThread] = "idle"
  /\ hpc = NoId
  /\ HasState(id)
  /\ status[id].status = Running
  /\ pc' = [pc EXCEPT ![HealthThread] = "hc_probing"]
  /\ arg' = [arg EXCEPT ![HealthThread] = id]
  /\ UNCHANGED <<registry, status, connections, now, op, result, held,
                 closed, seen, startCount, hpc, reload>>
  /\ UNCHANGED <<snap, listed, file, timer, quiet, burst>>
  /\ UNCHANGED ext

\* ping_server: connections.read(), then the pool's is_healthy, or false
\* when the server has no pool. A healthy server lets the sweep go on; for
\* an unhealthy one the read lock is dropped, and the mark follows.
HealthProbeEnd ==
  /\ pc[HealthThread] = "hc_probing"
  /\ ConnectionsReadable
  /\ \E is_healthy \in BOOLEAN :
       hpc' = IF HasPool(arg[HealthThread]) /\ is_healthy
                THEN NoId ELSE arg[HealthThread]
  /\ pc' = [pc EXCEPT ![HealthThread] = "idle"]
  /\ arg' = [arg EXCEPT ![HealthThread] = NoId]
  /\ UNCHANGED <<registry, status, connections, now, op, result, held,
                 closed, seen, startCount, reload>>
  /\ UNCHANGED <<snap, listed, file, timer, quiet, burst>>
  /\ UNCHANGED ext

\* "Mark as unhealthy", under the write lock taken after the read lock
\* was dropped.
HealthMark ==
  /\ hpc # NoId
  /\ StatusWritable
  /\ status' = IF HasState(hpc)
                 THEN [status EXCEPT ![hpc].status = Unhealthy]
                 ELSE status
  /\ hpc' = NoId
  /\ UNCHANGED <<registry, connections, now, pc, arg, op, result, held,
                 closed, seen, startCount, reload>>
  /\ UNCHANGED <<snap, listed, file, timer, quiet, burst>>
  /\ UNCHANGED ext
\* --------------------------------------------- ServerManager::get_stats
\* What get_stats returns in the current state: the counters it derives from
\* the status map under the read lock.
get_stats ==
  [total_servers |-> Cardinality(DOMAIN status),
   active_servers |->
     Cardinality({id \in DOMAIN status : status[id].status = Running})]

\* ------------------------------------------------------------ catalogs
Entry(id, runtime) == [id |-> id, runtime |-> runtime]
Catalog(servers) == [syntax_ok |-> TRUE, servers |-> servers]

RuntimeTypes == {"local-process", "remote-sse"}

Catalogs ==
  { Catalog(<<Entry("a", "local-process")>>),
    Catalog(<<Entry("a", "remote-sse"), Entry("b", "local-process")>>),
    Catalog(<<Entry("b", "local-process")>>),
    [syntax_ok |-> FALSE, servers |-> <<>>],
    Catalog(<<Entry("a", "local-process"), Entry("", "local-process")>>),
    Catalog(<<Entry("a", "local-process"), Entry("a", "remote-sse")>>),
    Catalog(<<Entry("a", "local-process"), Entry("b", "missing")>>),
    Catalog(<<Entry("a", "local-process"), Entry("b", "unknown")>>) }
\* Every catalog file of at most MaxServers entries: an entry has an id or
\* none (""), and a runtime block of a recognized type, of an unknown type,
\* or none ("missing"); a file that does not parse has no entries to speak
\* of.
MaxServers == 2

Entries ==
  {Entry(id, rt) : id \in Ids \cup {""},
                   rt \in RuntimeTypes \cup {"missing", "unknown"}}

CatalogFiles ==
  {Catalog(ss) : ss \in UNION {[1..n -> Entries] : n \in 0..MaxServers}}
    \cup {[syntax_ok |-> FALSE, servers |-> <<>>]}

\* The validation rules in the order of the table of rules: duplicate ids
\* are looked for before missing ids.
LoadErrorDuplicateFirst(cat) ==
  LET n == Len(cat.servers)
      e(i) == cat.servers[i] IN
    IF ~cat.syntax_ok THEN "ParseError"
    ELSE IF \E i, j \in 1..n : i # j /\ e(i).id = e(j).id THEN "DuplicateId"
    ELSE IF \E i \in 1..n : e(i).id = "" THEN "MissingId"
    ELSE IF \E i \in 1..n : e(i).runtime = "missing" THEN "MissingRuntime"
    ELSE IF \E i \in 1..n : e(i).runtime \notin RuntimeTypes
      THEN "UnknownRuntime"
    ELSE "-"

\* The validation rules of load_catalog, first failure wins.
LoadError(cat) ==
  LET n == Len(cat.servers)
      e(i) == cat.servers[i] IN
    IF ~cat.syntax_ok THEN "ParseError"
    ELSE IF \E i \in 1..n : e(i).id = "" THEN "MissingId"
    ELSE IF \E i, j \in 1..n : i # j /\ e(i).id = e(j).id THEN "DuplicateId"
    ELSE IF \E i \in 1..n : e(i).runtime = "missing" THEN "MissingRuntime"
    ELSE IF \E i \in 1..n : e(i).runtime \notin RuntimeTypes
      THEN "UnknownRuntime"
    ELSE "-"

\* ServerRegistry::new(catalog): id -> runtime of its definition.
BuildRegistry(cat) ==
  LET ids == {cat.servers[i].id : i \in 1..Len(cat.servers)} IN
    [id \in ids |->
       cat.servers[CHOOSE i \in 1..Len(cat.servers) :
                     cat.servers[i].id = id].runtime]

\* ----------------------------------------------- CatalogWatcher::reload
\* update_registry stopping every server of the old registry.
RemovedIdsAll(old, new) == DOMAIN old

\* The ids update_registry stops: in the old registry, not in the new one.
RemovedIds(old, new) == DOMAIN old \ DOMAIN new

\* ParseError or ValidationError, as reload reports a rejected catalog.
ErrorClass(err) == IF err = "ParseError" THEN "ParseError" ELSE "ValidationError"
\* update_registry that also stops the running servers it keeps, to have
\* them come back under the definitions of the new registry.
UpdateRegistryStopKept(new) ==
  LET removed == RemovedIds(registry, new) \cup
                   {id \in DOMAIN registry \cap DOMAIN new :
                      StatusOf(id) = Running} IN
    /\ registry' = new
    /\ reload' = [result |-> IF removed = {} THEN "ok" ELSE "-",
                  old |-> DOMAIN registry, pending |-> removed]
    /\ IF removed = {}
         THEN UNCHANGED <<pc, arg>>
         ELSE \E first \in removed :
                /\ pc' = [pc EXCEPT ![WatcherThread] = "sp_begin"]
                /\ arg' = [arg EXCEPT ![WatcherThread] = first]

\* ServerManager::update_registry up to its first stop_server: the snapshot
\* is swapped and the removed ids are computed.
UpdateRegistry(new) ==
  LET removed == RemovedIds(registry, new) IN
    /\ registry' = new
    /\ reload' = [result |-> IF removed = {} THEN "ok" ELSE "-",
                  old |-> DOMAIN registry, pending |-> removed]
    /\ IF removed = {}
         THEN UNCHANGED <<pc, arg>>
         ELSE \E first \in removed :
                /\ pc' = [pc EXCEPT ![WatcherThread] = "sp_begin"]
                /\ arg' = [arg EXCEPT ![WatcherThread] = first]

\* reload putting the catalog's servers in place before it looks at the
\* result of the validation.
ReloadSwapFirst(cat) ==
  /\ pc[WatcherThread] = "idle"
  /\ IF LoadError(cat) # "-"
       THEN /\ reload' = [result |-> ErrorClass(LoadError(cat)),
                          old |-> DOMAIN registry, pending |-> {}]
            /\ registry' = BuildRegistry(cat)
            /\ UNCHANGED <<pc, arg>>
       ELSE UpdateRegistry(BuildRegistry(cat))
  /\ UNCHANGED <<status, connections, now, op, result, held, closed, seen,
                 startCount, hpc>>

\* CatalogWatcher::reload: `load_catalog(path)?`, then the new registry is
\* put in place.
Reload(cat) ==
  /\ pc[WatcherThread] = "idle"
  /\ IF LoadError(cat) # "-"
       THEN /\ reload' = [result |-> ErrorClass(LoadError(cat)),
                          old |-> DOMAIN registry, pending |-> {}]
            /\ UNCHANGED <<registry, pc, arg>>
       ELSE UpdateRegistry(BuildRegistry(cat))
  /\ UNCHANGED <<status, connections, now, op, result, held, closed, seen,
                 startCount, hpc>>

\* The debounced reload of the file watcher.
WatcherReload(cat) ==
  /\ Reload(cat)
  /\ UNCHANGED <<snap, listed, file, timer, quiet, burst>>
  /\ UNCHANGED ext
\* reload_catalog going through the debounce of the watcher: nothing is
\* loaded while a timer is pending or the watcher is not started.
ManualReloadDebounced(cat) ==
  /\ config.hot_reload
  /\ timer = None
  /\ Reload(cat)
  /\ UNCHANGED <<snap, listed, file, timer, quiet, burst>>
  /\ UNCHANGED ext

\* Route handler reload_catalog: state.watcher.reload().
ManualReload(cat) ==
  /\ Reload(cat)
  /\ UNCHANGED <<snap, listed, file, timer, quiet, burst>>
  /\ UNCHANGED ext
\* Route handler reload_catalog on its own task, beside the watcher:
\* load_catalog, then update_registry: the swap under the registry write
\* lock hands back the registry it replaced, old_ids and new_ids are taken
\* from the two, and the removed servers are stopped one after the other;
\* the counts are made when the stops are done.
ReloadCatalog(cat) ==
  /\ pc[ManualThread] = "idle"
  /\ IF LoadError(cat) # "-"
       THEN /\ manual' = [NoReload EXCEPT
                            !.result = ErrorClass(LoadError(cat))]
            /\ UNCHANGED <<registry, pc, arg>>
       ELSE LET new == BuildRegistry(cat)
                removed == RemovedIds(registry, new) IN
              /\ registry' = new
              /\ manual' =
                   [old_ids |-> DOMAIN registry,
                    new_ids |-> DOMAIN new,
                    pending |-> removed,
                    result |-> IF removed = {} THEN "ok" ELSE "-",
                    report |-> IF removed = {}
                                 THEN <<ReloadCounts(DOMAIN registry,
                                                     DOMAIN new)>>
                                 ELSE <<>>]
              /\ IF removed = {}
                   THEN UNCHANGED <<pc, arg>>
                   ELSE \E first \in removed :
                          /\ pc' = [pc EXCEPT ![ManualThread] = "sp_begin"]
                          /\ arg' = [arg EXCEPT ![ManualThread] = first]
  /\ UNCHANGED <<status, connections, now, op, result, held, closed, seen,
                 startCount, hpc, reload>>
  /\ UNCHANGED <<snap, listed, file, timer, quiet, burst>>
  /\ UNCHANGED <<config, shutdown, order, msg, shapes, request, response>>

\* -------------------------------------------- route handler list_servers
\* `let registry = state.manager.registry().await`: the handler clones the
\* Arc of the current snapshot under the read lock.
ListBegin ==
  /\ snap = <<>>
  /\ snap' = <<registry>>
  /\ listed' = EmptyMap
  /\ order' = <<>>
  /\ UNCHANGED <<registry, status, connections, now, pc, arg, op, result,
                 held, closed, seen, startCount, hpc, reload, file, timer,
                 quiet, burst>>
  /\ UNCHANGED <<config, shutdown, msg, shapes, request, response, manual>>

\* list_servers going back to the manager's current registry for every
\* server it collects.
ListNextReread ==
  /\ snap # <<>>
  /\ \E id \in DOMAIN registry \ DOMAIN listed :
       /\ listed' = MapPut(listed, id, registry[id])
       /\ order' = Append(order, id)
  /\ UNCHANGED <<registry, status, connections, now, pc, arg, op, result,
                 held, closed, seen, startCount, hpc, reload, snap, file,
                 timer, quiet, burst>>
  /\ UNCHANGED <<config, shutdown, msg, shapes, request, response, manual>>

\* One step of `registry.all().map(..)`: the next server of the cloned
\* snapshot is collected. all() is `self.servers.values()` of a HashMap,
\* whose iteration order the language leaves unspecified: any server not
\* yet yielded may come next.
ListNext ==
  /\ snap # <<>>
  /\ \E id \in DOMAIN snap[1] \ DOMAIN listed :
       /\ listed' = MapPut(listed, id, snap[1][id])
       /\ order' = Append(order, id)
  /\ UNCHANGED <<registry, status, connections, now, pc, arg, op, result,
                 held, closed, seen, startCount, hpc, reload, snap, file,
                 timer, quiet, burst>>
  /\ UNCHANGED <<config, shutdown, msg, shapes, request, response, manual>>

\* `.collect()` and the answer: the clone is dropped, listed is what the
\* client receives.
ListEnd ==
  /\ snap # <<>>
  /\ DOMAIN listed = DOMAIN snap[1]
  /\ snap' = <<>>
  /\ UNCHANGED <<registry, status, connections, now, pc, arg, op, result,
                 held, closed, seen, startCount, hpc, reload, listed, file,
                 timer, quiet, burst>>
  /\ UNCHANGED ext
\* ------------------------------------------------ file watcher: debounce
\* A change of the file that leaves a debounce timer that runs as it is.
FileChangeNoReset(cat) ==
  /\ cat # file
  /\ timer # None => burst < MaxBurst
  /\ file' = cat
  /\ timer' = IF timer = None THEN DebounceDelay ELSE timer
  /\ quiet' = 0
  /\ burst' = IF timer = None THEN 1 ELSE burst + 1
  /\ UNCHANGED <<registry, status, connections, now, pc, arg, op, result,
                 held, closed, seen, startCount, hpc, reload, snap, listed>>
  /\ UNCHANGED ext

\* The file is edited: the watcher detects the change and starts the
\* debounce timer, or resets it when it runs already. With hot_reload: false
\* the file watcher is not started and nothing sees the change.
FileChange(cat) ==
  /\ cat # file
  /\ timer # None => burst < MaxBurst
  /\ file' = cat
  /\ quiet' = 0
  /\ IF config.hot_reload
       THEN /\ timer' = DebounceDelay
            /\ burst' = IF timer = None THEN 1 ELSE burst + 1
       ELSE UNCHANGED <<timer, burst>>
  /\ UNCHANGED <<registry, status, connections, now, pc, arg, op, result,
                 held, closed, seen, startCount, hpc, reload, snap, listed>>
  /\ UNCHANGED ext

\* Time passes with no change of the file.
DebounceTick ==
  /\ timer # None
  /\ timer > 0
  /\ timer' = timer - 1
  /\ quiet' = IF quiet < DebounceDelay THEN quiet + 1 ELSE quiet
  /\ UNCHANGED <<registry, status, connections, now, pc, arg, op, result,
                 held, closed, seen, startCount, hpc, reload, snap, listed,
                 file, burst>>
  /\ UNCHANGED ext

\* "After debounce": the timer has elapsed and the watcher loads the file
\* as it is now.
DebounceFire ==
  /\ timer = 0
  /\ Reload(file)
  /\ timer' = None
  /\ UNCHANGED <<snap, listed, file, quiet, burst>>
  /\ UNCHANGED ext
\* ------------------------------------------------------------ McpMessage
\* Every McpMessage serde can deserialize: each optional field is there or
\* not.
Messages ==
  [jsonrpc : {"2.0", "1.0"}, id : BOOLEAN, method : BOOLEAN,
   params : BOOLEAN, result : BOOLEAN, error : BOOLEAN]

is_request(m) == m.method /\ m.id
is_response(m) == m.result \/ m.error
is_notification(m) == m.method /\ ~m.id

ShapesOf(m) ==
  {sh \in {"request", "response", "notification"} :
     \/ sh = "request" /\ is_request(m)
     \/ sh = "response" /\ is_response(m)
     \/ sh = "notification" /\ is_notification(m)}

\* The three predicates are asked about msg.
Classify ==
  /\ shapes = <<>>
  /\ shapes' = <<ShapesOf(msg)>>
  /\ UNCHANGED <<registry, status, connections, now, pc, arg, op, result,
                 held, closed, seen, startCount, hpc, reload>>
  /\ UNCHANGED <<snap, listed, file, timer, quiet, burst>>
  /\ UNCHANGED <<config, shutdown, order, msg, request, response, manual>>
\* -------------------------------------------------------- AuthMiddleware
\* The key the gateway is configured with, and the keys clients send.
ApiKey == "secret"
Keys == {ApiKey, "wrong"}

\* A header value is <<prefix, rest>>: what stands before the key, and the
\* key.
HeaderValues(prefixes) == {<<p, k>> : p \in prefixes, k \in Keys}

Requests ==
  [path : {"/health", "/servers", "/mcp", "/admin/reload"},
   authorization :
     {<<>>} \cup {<<v>> : v \in HeaderValues({"Bearer ", "Basic ", ""})},
   x_api_key : {<<>>} \cup {<<v>> : v \in HeaderValues({""})}]

\* str::strip_prefix on a header value: Some(rest) or None.
StripPrefix(v, prefix) == IF v[1] = prefix THEN <<v[2]>> ELSE <<>>

\* A middleware that takes the key of an Authorization header whatever the
\* scheme in front of it.
AuthMiddlewareCallAnyScheme(req) ==
  IF req.path = "/health" THEN "handler"
  ELSE
    LET provided_key ==
          IF req.authorization # <<>>
            THEN <<req.authorization[1][2]>>
            ELSE IF req.x_api_key # <<>>
              THEN <<req.x_api_key[1][2]>>
              ELSE <<>> IN
      IF provided_key = <<>> THEN "401"
      ELSE IF provided_key[1] = ApiKey THEN "handler"
      ELSE "403"

\* AuthMiddleware::call: "handler" when the request goes on to inner.call,
\* the status code of the answer otherwise.
AuthMiddlewareCall(req) ==
  IF req.path = "/health" THEN "handler"
  ELSE
    LET auth_header == req.authorization
        api_key_header ==
          IF req.x_api_key = <<>> THEN <<>> ELSE <<req.x_api_key[1][2]>>
        stripped ==
          IF auth_header = <<>> THEN <<>>
          ELSE StripPrefix(auth_header[1], "Bearer ")
        provided_key == IF stripped # <<>> THEN stripped ELSE api_key_header IN
      IF provided_key = <<>> THEN "401"
      ELSE IF provided_key[1] = ApiKey THEN "handler"
      ELSE "403"

\* The middleware is called with the request.
HandleRequest ==
  /\ response = "-"
  /\ response' = AuthMiddlewareCall(request)
  /\ UNCHANGED <<registry, status, connections, now, pc, arg, op, result,
                 held, closed, seen, startCount, hpc, reload>>
  /\ UNCHANGED <<snap, listed, file, timer, quiet, burst>>
  /\ UNCHANGED <<config, shutdown, order, msg, shapes, request, manual>>

\* --------------------------------------------------------------- clock
Tick ==
  /\ now < MaxTime
  /\ now' = now + 1
  /\ UNCHANGED <<registry, status, connections, pc, arg, op, result, held,
                 closed, seen, startCount, hpc, reload>>
  /\ UNCHANGED <<snap, listed, file, timer, quiet, burst>>
  /\ UNCHANGED ext

\* ---------------------------------------------------------------- Next
\* The steps of get_connection and of the exchange that follows, run for
\* caller c on the servers ids (start_server included).
AcquireStep(c, ids) ==
  \/ \E id \in ids : AcqBegin(c, id)
  \/ StBegin(c)
  \/ StConnect(c)
  \/ StFinish(c)
  \/ StJoin(c)
  \/ WaitReady(c)
  \/ WaitTimeout(c)
  \/ AcqPool(c)
  \/ PoolWaitGet(c)
  \/ PoolWaitTimeout(c)
  \/ Touch(c)
  \/ Release(c)

\* The steps of any route handler running for caller c.
CallerStep(c, ids) ==
  \/ AcquireStep(c, ids)
  \/ \E id \in ids : HttpStartBegin(c, id)
  \/ \E id \in ids : HttpStopBegin(c, id)

\* The steps of stop_server, whoever runs it.
StopStep(t) ==
  \/ StopBegin(t)
  \/ StopClose(t)
  \/ StopFinal(t)

ReloadStep ==
  \/ \E cat \in Catalogs : WatcherReload(cat)
  \/ \E cat \in Catalogs : ManualReload(cat)

SweepStep ==
  \/ CheckIdleServers
  \/ \E id \in Ids : HealthProbeFails(id)
  \/ HealthMark

Next ==
  \/ \E c \in Callers : CallerStep(c, Ids)
  \/ \E t \in Threads : StopStep(t)
  \/ ReloadStep
  \/ SweepStep
  \/ Tick

Spec == Init /\ [][Next]_vars

\* The Manager under a fixed registry: two callers on server "a", the idle
\* and health sweeps, no reload.
NextManager ==
  \/ \E c \in Callers : CallerStep(c, {"a"})
  \/ \E t \in Callers \cup Tasks : StopStep(t)
  \/ SweepStep
  \/ Tick

SpecManager == Init /\ [][NextManager]_vars

\* Concurrent get_connection calls alone, on server "a".
NextAcquire == \E c \in Callers : AcquireStep(c, {"a"})

SpecAcquire == Init /\ [][NextAcquire]_vars

\* The steps of a route handler that runs with no other handler beside it:
\* it meets neither a start in flight nor a saturated pool.
SoloStep(c, ids) ==
  \/ \E id \in ids : AcqBegin(c, id)
  \/ StBegin(c)
  \/ StConnect(c)
  \/ StFinish(c)
  \/ WaitReady(c)
  \/ WaitTimeout(c)
  \/ AcqPool(c)
  \/ Touch(c)
  \/ Release(c)
  \/ \E id \in ids : HttpStartBegin(c, id)
  \/ \E id \in ids : HttpStopBegin(c, id)
\* Concurrent get_connection calls where the wait on a saturated pool is
\* bounded by its timer: a waiter whose timer can fire is not left waiting.
SpecAcquireFair ==
  SpecAcquire /\ \A c \in Callers : WF_vars(PoolWaitTimeout(c))
ListStep ==
  \/ ListBegin
  \/ ListNext
  \/ ListEnd

\* list_servers beside reloads: the watcher swaps snapshots while a listing
\* is under way.
NextSnapshot ==
  \/ ListStep
  \/ ReloadStep
  \/ StopStep(WatcherThread)

SpecSnapshot == Init /\ [][NextSnapshot]_vars
\* The file watcher alone: edits of the catalog file, the debounce timer and
\* the reloads it sets off.
NextWatcher ==
  \/ \E cat \in Catalogs : FileChange(cat)
  \/ DebounceTick
  \/ DebounceFire
  \/ StopStep(WatcherThread)

SpecWatcher == Init /\ [][NextWatcher]_vars

\* ------------------------------------------------------ configurations
\* The config.yaml files the gateway may be started with.
Configs == [hot_reload : BOOLEAN, idle_timeout_seconds : {0, idle_timeout}]

InitConfigured ==
  /\ InitState
  /\ config \in Configs
  /\ NoMessage
  /\ NoRequest

\* POST /admin/reload beside the file watcher, which is started or not:
\* edits of the catalog file, the debounce timer, and the manual reload of
\* the file as it is on disk.
NextManual ==
  \/ \E cat \in Catalogs : FileChange(cat)
  \/ DebounceTick
  \/ DebounceFire
  \/ ManualReload(file)
  \/ StopStep(WatcherThread)

SpecManual == InitConfigured /\ [][NextManual]_vars
\* The gateway is closed while one caller works on server "a": shutdown_all
\* beside the handlers of that caller.
NextShutdown ==
  \/ SoloStep("c1", {"a"})
  \/ \E t \in {"c1", ShutdownThread} : StopStep(t)
  \/ ShutdownBegin

SpecShutdown == Init /\ [][NextShutdown]_vars
\* POST /mcp from two clients on server "a": get_connection, then the
\* exchange, which succeeds or fails.
NextExchange ==
  \/ \E c \in Callers : AcquireStep(c, {"a"})
  \/ \E c \in Callers : ExchangeFail(c)

SpecExchange == Init /\ [][NextExchange]_vars
\* The idle sweep under any configured idle timeout: one caller on server
\* "a", the sweep and its stop tasks, and the clock.
NextIdle ==
  \/ SoloStep("c1", {"a"})
  \/ \E t \in {"c1"} \cup Tasks : StopStep(t)
  \/ CheckIdleServers
  \/ Tick

SpecIdle == InitConfigured /\ [][NextIdle]_vars
\* The gateway runs with hot_reload: false and the catalog file has been
\* edited by hand since it started.
InitEdited ==
  /\ \E f \in CatalogFiles : InitWith(f)
  /\ config = [hot_reload |-> FALSE, idle_timeout_seconds |-> idle_timeout]
  /\ NoMessage
  /\ NoRequest

\* load on every catalog file: POST /admin/reload loads the file as it is.
NextLoad ==
  \/ ManualReload(file)
  \/ StopStep(WatcherThread)

SpecLoad == InitEdited /\ [][NextLoad]_vars
\* The steps of stop_server when close_all is slow.
SlowStopStep(t) ==
  \/ StopBegin(t)
  \/ StopCloseBegin(t)
  \/ StopCloseEnd(t)
  \/ StopFinal(t)

\* A gateway started with a catalog of two servers.
TwoServers ==
  Catalog(<<Entry("a", "local-process"), Entry("b", "local-process")>>)

InitTwoServers ==
  /\ InitFrom(BuildRegistry(TwoServers), TwoServers)
  /\ config = DefaultConfig
  /\ NoMessage
  /\ NoRequest

\* Two clients, one on server "a" and one on server "b", and stops whose
\* close_all is slow.
NextTwoServers ==
  \/ SoloStep("c1", {"a"})
  \/ SoloStep("c2", {"b"})
  \/ \E t \in Callers : SlowStopStep(t)

SpecTwoServers == InitTwoServers /\ [][NextTwoServers]_vars
\* A message arrives, from a client or from a backend, and is classified.
InitMessage ==
  /\ InitState
  /\ config = DefaultConfig
  /\ msg \in Messages
  /\ shapes = <<>>
  /\ NoRequest

SpecMessage == InitMessage /\ [][Classify]_vars
\* GET /servers beside POST /admin/reload of an edited catalog file.
NextListing ==
  \/ ListStep
  \/ ManualReload(file)
  \/ StopStep(WatcherThread)

SpecListing == InitEdited /\ [][NextListing]_vars
\* A gateway with api_key configured receives a request.
InitRequest ==
  /\ InitState
  /\ config = DefaultConfig
  /\ NoMessage
  /\ request \in Requests
  /\ response = "-"

SpecAuth == InitRequest /\ [][HandleRequest]_vars
\* Requests that can time out: two callers on one server, each exchange
\* ending with its response or with the receive timeout.
NextTimeout ==
  \/ \E c \in Callers : AcquireStep(c, {"a"})
  \/ \E c \in Callers : RecvTimeout(c)

SpecTimeout == Init /\ [][NextTimeout]_vars
\* What a get_connection call in flight does next, and what a stop in
\* flight does next.
AcquireProgress(c) ==
  \/ StBegin(c)
  \/ StConnect(c)
  \/ StFinish(c)
  \/ StJoin(c)
  \/ WaitReady(c)
  \/ WaitTimeout(c)
  \/ AcqPool(c)
  \/ PoolWaitGet(c)
  \/ PoolWaitTimeout(c)
  \/ Touch(c)
  \/ Release(c)

\* The manager where every call in flight keeps running: the runtime
\* schedules each task that can take a step, and the timers of
\* wait_for_ready and of the pool wait fire.
SpecManagerFair ==
  /\ SpecManager
  /\ \A c \in Callers : WF_vars(AcquireProgress(c))
  /\ \A t \in Callers \cup Tasks : WF_vars(StopStep(t))
\* A reload_catalog call beside the reloads of the watcher, each stopping
\* the servers it removed.
NextCounts ==
  \/ \E cat \in Catalogs : WatcherReload(cat)
  \/ \E cat \in Catalogs : ReloadCatalog(cat)
  \/ \E t \in {WatcherThread, ManualThread} : StopStep(t)

SpecCounts == Init /\ [][NextCounts]_vars
\* The catalog the gateway starts with and one that has server "b" in the
\* place of server "a": a reload from one to the other removes a server,
\* which update_registry stops.
RemovalCatalogs ==
  { Catalog(<<Entry("a", "local-process")>>),
    Catalog(<<Entry("b", "local-process")>>) }

\* The steps of the calls in flight: route handlers past their first lock,
\* stops, and the health sweep from its probe on.
LockProgress ==
  \/ \E c \in Callers : AcquireProgress(c)
  \/ \E t \in Threads : SlowStopStep(t)
  \/ HealthProbeEnd
  \/ HealthMark

\* get_connection, release, the idle sweep, the health sweep and
\* update_registry together, the locks held while close_all, ping_server
\* and the pool wait are awaited.
NextLocks ==
  \/ \E c \in Callers : AcquireStep(c, {"a"})
  \/ \E t \in Tasks \cup {WatcherThread} : SlowStopStep(t)
  \/ CheckIdleServers
  \/ Tick
  \/ \E id \in Ids : HealthProbeBegin(id)
  \/ HealthProbeEnd
  \/ HealthMark
  \/ \E cat \in RemovalCatalogs : WatcherReload(cat)

SpecLocks == Init /\ [][NextLocks]_vars

\* Hot reload: the watcher and one caller on every id, no sweeps.
NextReload ==
  \/ SoloStep("c1", Ids)
  \/ \E t \in {"c1", WatcherThread} : StopStep(t)
  \/ ReloadStep

SpecReload == Init /\ [][NextReload]_vars


\* ============================================================== claims

\* C1: concurrent get_connection calls that read the same server Stopped
\* lead to exactly one start attempt: a call that read Stopped makes the
\* Stopped -> Starting transition only if no other attempt was made on that
\* id since it read the status.
C1_ExactlyOneStartAttempt ==
  [][\A c \in Callers :
       (pc[c] = "st_begin" /\ pc'[c] = "st_connect")
         => startCount[arg[c]] = seen[c]]_vars

\* C2: the live connections of a server's pool never exceed
\* max_connections_per_server.
C2_PoolBound ==
  \A id \in DOMAIN connections :
    connections[id].connections <= max_connections_per_server

\* More acquires than the pool allows: the pool is full and a caller waits.
C2_Witness ==
  \E id \in DOMAIN connections, c \in Callers :
    /\ connections[id].connections = max_connections_per_server
    /\ pc[c] = "acq_poolwait"
    /\ arg[c] = id

\* The callers that hold connection idx of the current pool of id.
Holders(id, idx) ==
  {c \in Callers : arg[c] = id /\ held[c] = idx /\ ~closed[c]}

InAvailable(pool, idx) ==
  \E i \in 1..Len(pool.available) : pool.available[i] = idx

\* C3: a connection is checked out to at most one caller, and the available
\* queue holds no connection that is checked out.
C3_ExclusiveCheckout ==
  \A id \in DOMAIN connections :
    \A idx \in 0..(connections[id].connections - 1) :
      /\ Cardinality(Holders(id, idx)) <= 1
      /\ InAvailable(connections[id], idx) => Holders(id, idx) = {}

\* A connection that went back to the pool is checked out again: one start,
\* one connection created, the second checkout in progress.
C3_Witness ==
  \E c \in Callers :
    /\ pc[c] = "holding" /\ ~closed[c]
    /\ HasPool(arg[c])
    /\ connections[arg[c]].connections = 1
    /\ connections[arg[c]].available = <<>>
    /\ startCount[arg[c]] = 1
    /\ HasState(arg[c]) /\ status[arg[c]].request_count = 2

\* C4: get_connection and the start handler, called for an id the registry
\* does not define, return NotFound on the spot and change neither a
\* ServerState nor a pool; and no start attempt is ever made for an id that
\* is not in the registry.
C4_UnknownIdNotFound ==
  [][/\ \A c \in Callers :
          ( /\ pc[c] = "idle"
            /\ <<op[c], arg[c], result[c]>> # <<op'[c], arg'[c], result'[c]>>
               \/ pc'[c] # "idle"
            /\ op'[c] \in {"acquire", "start"}
            /\ arg'[c] \notin DOMAIN registry )
          => /\ pc'[c] = "idle"
             /\ result'[c] = "NotFound"
             /\ status' = status
             /\ connections' = connections
             /\ startCount' = startCount
     /\ \A id \in Ids :
          startCount'[id] # startCount[id] => id \in DOMAIN registry]_vars

\* start was refused for a server that a reload removed (its ServerState is
\* still there).
C4_Witness ==
  \E c \in Callers :
    /\ pc[c] = "idle" /\ op[c] = "start" /\ result[c] = "NotFound"
    /\ arg[c] \notin DOMAIN registry
    /\ HasState(arg[c])

\* C5: a reload that reports ParseError or ValidationError leaves the
\* registry, every ServerState, every pool and every thread where they were.
C5_FailedReloadKeepsRegistry ==
  [][(reload' # reload /\ reload'.result \in {"ParseError", "ValidationError"})
       => /\ registry' = registry
          /\ status' = status
          /\ connections' = connections
          /\ pc' = pc]_vars

\* A catalog was rejected while a server of the previous registry runs.
C5_Witness ==
  /\ reload.result = "ValidationError"
  /\ \E id \in DOMAIN registry : StatusOf(id) = Running /\ HasPool(id)

\* C6: the stop_server that the idle sweep spawned ends with the server
\* Stopped.
C6_IdleStopReachesStopped ==
  [][\A t \in Tasks :
       (pc[t] # "idle" /\ pc'[t] = "idle")
         => (HasState(arg[t]) => status'[arg[t]].status = Stopped)]_vars

\* C7: a server whose status is Stopped has no live connection.
C7_StoppedHoldsNothing ==
  \A id \in Ids :
    StatusOf(id) = Stopped
      => (HasPool(id) => connections[id].connections = 0)

\* C8: once a reload has succeeded, every id it removed is Stopped without
\* a pool, and its ServerState is gone.
C8_RemovedStateDropped ==
  (pc[WatcherThread] = "idle" /\ reload.result = "ok")
    => \A id \in reload.old \ DOMAIN registry :
         ~HasState(id) /\ ~HasPool(id)

\* The watcher took a step of reload or of update_registry.
WatcherStepped ==
  \/ pc'[WatcherThread] # pc[WatcherThread]
  \/ arg'[WatcherThread] # arg[WatcherThread]
  \/ reload' # reload
  \/ registry' # registry

PoolOf(m, id) == IF id \in DOMAIN m THEN m[id] ELSE [none |-> TRUE]
StateOf(m, id) == IF id \in DOMAIN m THEN m[id] ELSE [none |-> TRUE]

\* C9: no step of a reload changes the ServerState or the pool of a server
\* that is in the old and in the new registry, whether or not its definition
\* changed; its pool keeps the runtime it was built with.
C9_KeptServersUntouched ==
  [][WatcherStepped
       => \A id \in reload'.old \cap DOMAIN registry' :
            /\ StateOf(status', id) = StateOf(status, id)
            /\ PoolOf(connections', id) = PoolOf(connections, id)]_vars

\* A reload changed the definition of a running server and removed another
\* one: the running server still runs on the runtime of its old definition.
C9_Witness ==
  /\ pc[WatcherThread] = "idle" /\ reload.result = "ok"
  /\ reload.old \ DOMAIN registry # {}
  /\ \E id \in reload.old \cap DOMAIN registry :
       /\ StatusOf(id) = Running
       /\ HasPool(id)
       /\ connections[id].runtime # registry[id]

\* C10: every id a reload adds is in the registry with status Stopped and
\* without a pool as soon as the snapshot is swapped.
C10_AddedServersStopped ==
  [][registry' # registry
       => \A id \in DOMAIN registry' \ DOMAIN registry :
            /\ StateOf(status', id) = StateOf(status, id)
            /\ PoolOf(connections', id) = PoolOf(connections, id)
            /\ (HasState(id) => status'[id].status = Stopped)
            /\ ~HasPool(id)]_vars

\* C11: a reload whose catalog has the content the registry was built from
\* adds nothing, removes nothing and stops nothing: the registry, every
\* ServerState and every pool stay as they were and the watcher calls no
\* stop_server.
C11_IdenticalReloadIsNoOp ==
  [][( /\ pc[WatcherThread] = "idle"
       /\ reload' # reload
       /\ reload'.result \notin {"ParseError", "ValidationError"}
       /\ registry' = registry )
       => /\ DOMAIN registry' \ reload'.old = {}
          /\ reload'.old \ DOMAIN registry' = {}
          /\ reload'.pending = {}
          /\ reload'.result = "ok"
          /\ pc'[WatcherThread] = "idle"
          /\ status' = status
          /\ connections' = connections]_vars

\* Two valid catalogs that define the same ids have the same content.
SameIdsSameContent ==
  \A x, y \in {cat \in Catalogs : LoadError(cat) = "-"} :
    DOMAIN BuildRegistry(x) = DOMAIN BuildRegistry(y)
      => BuildRegistry(x) = BuildRegistry(y)

\* The catalog was reloaded with unchanged content while a server runs.
C11_Witness ==
  /\ SameIdsSameContent
  /\ pc[WatcherThread] = "idle"
  /\ reload.result = "ok"
  /\ reload.old = DOMAIN registry
  /\ \E id \in DOMAIN registry : StatusOf(id) = Running /\ HasPool(id)

\* Caller c, idle before the step, invoked operation o in it.
Invoked(c, o) ==
  /\ pc[c] = "idle"
  /\ op'[c] = o
  /\ \/ pc'[c] # "idle"
     \/ <<op[c], arg[c], result[c]>> # <<op'[c], arg'[c], result'[c]>>

\* C12: start on a server of the registry whose status is Running answers
\* AlreadyRunning at once and changes nothing: no ServerState, no pool, no
\* start attempt.
C12_StartOnRunningIsNoOp ==
  [][\A c \in Callers :
       ( /\ Invoked(c, "start")
         /\ arg'[c] \in DOMAIN registry
         /\ StatusOf(arg'[c]) = Running )
       => /\ pc'[c] = "idle"
          /\ result'[c] = "AlreadyRunning"
          /\ status' = status
          /\ connections' = connections
          /\ startCount' = startCount]_vars

\* start was answered AlreadyRunning for a server that runs on its first
\* start with its one connection.
C12_Witness ==
  \E c \in Callers :
    /\ pc[c] = "idle" /\ op[c] = "start" /\ result[c] = "AlreadyRunning"
    /\ StatusOf(arg[c]) = Running
    /\ HasPool(arg[c]) /\ connections[arg[c]].connections = 1
    /\ startCount[arg[c]] = 1

DocumentedEdges ==
  { <<Stopped, Starting>>, <<Starting, Running>>, <<Starting, Stopped>>,
    <<Running, Unhealthy>>, <<Running, ShuttingDown>>,
    <<Unhealthy, ShuttingDown>>, <<ShuttingDown, Stopped>> }

\* The status of id in the map m of ServerStates, Stopped while it has none.
StatusIn(m, id) == IF id \in DOMAIN m THEN m[id].status ELSE Stopped

\* C14: every server starts Stopped and every change of a server's status
\* is an edge of the documented state machine.
C14_OnlyDocumentedEdges ==
  [][\A id \in Ids :
       StatusIn(status', id) # StatusIn(status, id)
         => <<StatusIn(status, id), StatusIn(status', id)>>
              \in DocumentedEdges]_vars

\* C15: when the connect of a start attempt fails, the attempt ends there:
\* the caller (get_connection or the start handler) returns StartFailed,
\* the status is Stopped, the server has no live connection, and no further
\* attempt is made on the caller's behalf.
C15_FailedStartBackToStopped ==
  [][\A c \in Callers :
       (pc[c] = "st_finish_err" /\ pc'[c] # "st_finish_err")
       => /\ pc'[c] = "idle"
          /\ result'[c] = "StartFailed"
          /\ StatusIn(status', arg[c]) = Stopped
          /\ arg[c] \in DOMAIN connections'
               => connections'[arg[c]].connections = 0
          /\ startCount' = startCount]_vars

\* An acquire came back with StartFailed after its one start attempt.
C15_Witness ==
  \E c \in Callers :
    /\ pc[c] = "idle" /\ op[c] = "acquire" /\ result[c] = "StartFailed"
    /\ startCount[arg[c]] = 1
    /\ HasState(arg[c]) /\ status[arg[c]].status = Stopped
    /\ ~HasPool(arg[c])

\* C16: a stop_server spawned by the idle sweep whose close_all fails still
\* leaves the server Stopped: when the task ends out of the close scope,
\* the status is Stopped, not ShuttingDown.
C16_FailedSweepStopForcedToStopped ==
  [][\A t \in Tasks :
       (pc[t] = "sp_close" /\ pc'[t] = "idle")
         => StatusIn(status', arg[t]) = Stopped]_vars

\* An acquire that reads status st for a server of the registry is the step
\* that decides whether the server is restarted.
AcquireReads(c, st) ==
  /\ Invoked(c, "acquire")
  /\ arg'[c] \in DOMAIN registry
  /\ StatusOf(arg'[c]) = st

\* C17: an acquire that finds the server Unhealthy sets off its restart: it
\* enters stop_server or start_server for that id.
C17_AcquireRestartsUnhealthy ==
  [][\A c \in Callers :
       AcquireReads(c, Unhealthy)
         => pc'[c] \in {"sp_begin", "st_begin"}]_vars

\* The pool of id has no available connection and is at max_size.
Saturated(id) ==
  /\ HasPool(id)
  /\ connections[id].available = <<>>
  /\ connections[id].connections >= connections[id].max_size

\* Caller c goes into the wait on a saturated pool: it takes no connection
\* and none is created.
BlocksOnSaturated(c) ==
  (pc[c] = "acq_pool" /\ pc'[c] # "acq_pool" /\ Saturated(arg[c]))
    => /\ pc'[c] = "acq_poolwait"
       /\ held'[c] = None
       /\ connections' = connections

\* Caller c leaves the wait with a connection that was released to the
\* available queue, or with PoolExhausted.
LeavesWait(c) ==
  (pc[c] = "acq_poolwait" /\ pc'[c] # "acq_poolwait")
    => \/ /\ pc'[c] = "acq_touch"
          /\ InAvailable(connections[arg[c]], held'[c])
          /\ ~InAvailable(connections'[arg[c]], held'[c])
          /\ connections'[arg[c]].connections
               = connections[arg[c]].connections
       \/ /\ pc'[c] = "idle"
          /\ result'[c] = "PoolExhausted"
          /\ held'[c] = None

Snapshots ==
  {InitialRegistry} \cup
    {BuildRegistry(cat) : cat \in {x \in Catalogs : LoadError(x) = "-"}}

\* C19: what one read of the registry has resolved comes from one snapshot:
\* at every moment of a listing, the servers collected so far are servers
\* of a single whole registry, with the definitions they have in it, and
\* the finished listing is that whole registry.
C19_ReadsSeeOneSnapshot ==
  /\ \E r \in Snapshots :
       \A id \in DOMAIN listed : id \in DOMAIN r /\ listed[id] = r[id]
  /\ (snap = <<>> /\ listed # EmptyMap) => listed \in Snapshots

\* A listing is under way on a snapshot that a reload has replaced
\* meanwhile by one defining the same server differently.
C19_Witness ==
  /\ snap # <<>>
  /\ snap[1] # registry
  /\ listed # EmptyMap
  /\ \E id \in DOMAIN listed :
       id \in DOMAIN registry /\ registry[id] # listed[id]

\* The step in which the debounce timer elapses and the load is attempted.
Fires == timer = 0 /\ timer' = None

\* C20: a change of the file starts or resets the debounce timer and loads
\* nothing; the load is attempted only when the timer has run its whole
\* delay since the last change, once, and it loads the file as it is then;
\* the registry never takes any other content.
C20_DebounceLoadsFinalContentOnce ==
  [][/\ file' # file
          => timer' = DebounceDelay /\ registry' = registry /\ reload' = reload
     /\ (timer = None /\ timer' # None) => file' # file
     /\ Fires
          => /\ quiet = DebounceDelay
             /\ file' = file
             /\ IF LoadError(file) = "-"
                  THEN registry' = BuildRegistry(file)
                  ELSE registry' = registry
     /\ registry' # registry => Fires]_vars

\* A burst of two changes was followed by one load, of the second content;
\* the registry never held the first.
C20_Witness ==
  /\ timer = None
  /\ burst = 2
  /\ reload.result = "ok"
  /\ registry = BuildRegistry(file)
  /\ registry # InitialRegistry
  /\ startCount = [id \in Ids |-> 0]


\* C21: a manual reload bypasses the debounce timer and loads at once: it
\* can be taken whenever no other reload is under way, whether or not a
\* debounce timer is pending and whether or not hot reload is enabled, and
\* the step itself loads the file as it is on disk (the registry is built
\* from it, or the error of its first violated rule is reported and the
\* registry kept) and leaves the debounce timer as it was.
ManualLoads ==
  /\ timer' = timer
  /\ IF LoadError(file) = "-"
       THEN registry' = BuildRegistry(file)
       ELSE /\ registry' = registry
            /\ reload'.result = ErrorClass(LoadError(file))

C21_ManualReloadBypassesDebounce ==
  /\ [](pc[WatcherThread] = "idle" => ENABLED ManualReload(file))
  /\ [][ManualReload(file) => ManualLoads]_vars

\* With hot reload disabled, a catalog edited on disk has been put in place:
\* only the manual reload can have done it.
C21_Witness ==
  /\ ~config.hot_reload
  /\ file # InitialCatalog
  /\ LoadError(file) = "-"
  /\ registry = BuildRegistry(file)
  /\ registry # InitialRegistry


\* C22: when the coordinated shutdown has finished, with or without an
\* error from one of its stops, every server is Stopped and no connection
\* pool (live connection, child process) remains.
ShutdownFinishes == shutdown.result = "-" /\ shutdown'.result # "-"

C22_ShutdownLeavesAllStopped ==
  [][ShutdownFinishes =>
       /\ \A id \in Ids : StatusIn(status', id) = Stopped
       /\ connections' = EmptyMap]_vars


ExchangeFails(c) ==
  /\ pc[c] = "holding"
  /\ pc'[c] = "idle"
  /\ result'[c] = "ExchangeFailed"

Touches(c) == pc[c] = "acq_touch" /\ pc'[c] = "holding"

ErrorCount(m, id) == IF id \in DOMAIN m THEN m[id].error_count ELSE 0
RequestsIn(m, id) == IF id \in DOMAIN m THEN m[id].request_count ELSE 0

C24_CountersFollowExchanges ==
  [][\A id \in Ids :
       /\ \A c \in Callers :
            (ExchangeFails(c) /\ arg[c] = id /\ StatusOf(id) = Running)
              => ErrorCount(status', id) = ErrorCount(status, id) + 1
       /\ \A c \in Callers :
            (Touches(c) /\ arg[c] = id /\ StatusOf(id) = Running)
              => /\ RequestsIn(status', id) = RequestsIn(status, id) + 1
                 /\ status'[id].last_activity = now
       /\ RequestsIn(status', id) # RequestsIn(status, id)
            => \E c \in Callers : Touches(c) /\ arg[c] = id
       /\ ErrorCount(status', id) # ErrorCount(status, id)
            => \E c \in Callers : ExchangeFails(c) /\ arg[c] = id]_vars


\* C25: with idle_timeout_seconds set to 0 no idle sweep initiates a stop:
\* no stop task is spawned for a Running server, however long it has been
\* idle.
SweepInitiatesStop ==
  \E t \in Tasks : pc[t] = "idle" /\ pc'[t] = "sp_begin"

C25_ZeroTimeoutNeverStops ==
  [][config.idle_timeout_seconds = 0 => ~SweepInitiatesStop]_vars


\* C26: load applies the rules in the order (a) syntax, (b) non-empty id on
\* every entry, (c) unique ids, (d) runtime block on every entry,
\* (e) recognized runtime type: a catalog that violates a rule is rejected
\* whole with the error of the first rule it violates in this order, and a
\* catalog that is accepted has no duplicate ids and only recognized runtime
\* types.
RuleOrder ==
  <<"ParseError", "MissingId", "DuplicateId", "MissingRuntime",
    "UnknownRuntime">>

Violates(cat, rule) ==
  LET ss == cat.servers
      n == Len(ss) IN
    CASE rule = "ParseError" -> ~cat.syntax_ok
      [] rule = "MissingId" -> \E i \in 1..n : ss[i].id = ""
      [] rule = "DuplicateId" ->
           Cardinality({ss[i].id : i \in 1..n}) < n
      [] rule = "MissingRuntime" -> \E i \in 1..n : ss[i].runtime = "missing"
      [] rule = "UnknownRuntime" ->
           \E i \in 1..n : ss[i].runtime \notin RuntimeTypes \cup {"missing"}

Violated(cat) == {k \in 1..Len(RuleOrder) : Violates(cat, RuleOrder[k])}

FirstViolated(cat) ==
  IF Violated(cat) = {} THEN "-"
  ELSE RuleOrder[CHOOSE k \in Violated(cat) : \A j \in Violated(cat) : k <= j]

C27_OtherIdsNotBlocked ==
  \A t \in Callers : \A u \in Callers :
    (pc[t] = "sp_closing" /\ arg[u] # arg[t]) =>
      /\ pc[u] = "acq_pool" => ENABLED AcqPool(u)
      /\ pc[u] = "sp_close" => ENABLED StopCloseBegin(u)


\* C28: for every message, whatever fields it has, exactly one of
\* is_request, is_response and is_notification holds.
C28_ExactlyOneShape ==
  shapes # <<>> => Cardinality(shapes[1]) = 1


\* C29: a finished listing of the snapshot built from the catalog file holds
\* every server of it exactly once, in the order of the file.
IdsInOrder(cat) == [i \in 1..Len(cat.servers) |-> cat.servers[i].id]

C29_ListingInCatalogOrder ==
  (/\ snap = <<>>
   /\ Len(order) > 0
   /\ LoadError(file) = "-"
   /\ listed = BuildRegistry(file))
    => /\ Len(order) = Cardinality(DOMAIN listed)
       /\ {order[i] : i \in 1..Len(order)} = DOMAIN listed
       /\ order = IdsInOrder(file)


\* C30: with api_key configured, a request to an endpoint other than
\* /health reaches its handler if and only if it supplies the configured
\* key as `Authorization: Bearer <key>` or as `X-API-Key: <key>`; a request
\* that supplies no key is answered 401, one that supplies an invalid key
\* 403, and /health is served without a key.
BearerKey(req) ==
  IF req.authorization # <<>> /\ req.authorization[1][1] = "Bearer "
    THEN <<req.authorization[1][2]>> ELSE <<>>

HeaderKey(req) ==
  IF req.x_api_key # <<>> THEN <<req.x_api_key[1][2]>> ELSE <<>>

SuppliesKey(req) == BearerKey(req) = <<ApiKey>> \/ HeaderKey(req) = <<ApiKey>>
SuppliesNoKey(req) == BearerKey(req) = <<>> /\ HeaderKey(req) = <<>>

C30_KeyByEitherMethod ==
  response # "-" =>
    IF request.path = "/health" THEN response = "handler"
    ELSE /\ response = "handler" <=> SuppliesKey(request)
         /\ SuppliesNoKey(request) => response = "401"
         /\ (~SuppliesNoKey(request) /\ ~SuppliesKey(request))
              => response = "403"

\* C30, amended: the key a request presents is the one of its
\* `Authorization: Bearer` header when it has one, and the one of its
\* X-API-Key header otherwise; the request reaches its handler if and only if
\* the key it presents is the configured one, is answered 401 when it
\* presents none and 403 when it presents another, and /health is served
\* without a key.
PresentedKey(req) ==
  IF BearerKey(req) # <<>> THEN BearerKey(req) ELSE HeaderKey(req)

C30_PresentedKeyDecides ==
  response # "-" =>
    IF request.path = "/health" THEN response = "handler"
    ELSE /\ response = "handler" <=> PresentedKey(request) = <<ApiKey>>
         /\ PresentedKey(request) = <<>> => response = "401"
         /\ (PresentedKey(request) # <<>>
               /\ PresentedKey(request) # <<ApiKey>>) => response = "403"

\* A request with a wrong Bearer token and the configured key in X-API-Key
\* has been answered.
C30_Witness ==
  /\ response = "403"
  /\ BearerKey(request) = <<"wrong">>
  /\ HeaderKey(request) = <<ApiKey>>


\* C40: in every reachable state stats() reports total_servers equal to the
\* number of servers in the current registry and active_servers equal to
\* the number of servers whose status is Running.
C40_StatsCountRegistry ==
  /\ get_stats.total_servers = Cardinality(DOMAIN registry)
  /\ get_stats.active_servers
       = Cardinality({id \in Ids : StatusOf(id) = Running})


\* C36: acquire(id) returns NotFound only if id is absent from the registry:
\* for a server the registry defines, an acquire that races with a stop
\* returns a connection or another typed error, never NotFound.
C36_NotFoundOnlyIfUndefined ==
  \A c \in Callers :
    (op[c] = "acquire" /\ result[c] = "NotFound")
      => arg[c] \notin DOMAIN registry


\* C37: a stop initiated by the idle sweep takes effect only if the server
\* is still Running and still idle when the stop executes: the task's stop
\* does not write ShuttingDown over a server that is no longer Running or
\* that has recorded activity since the sweep judged it idle.
SweepStopTakesEffect(t) ==
  /\ pc[t] = "sp_begin"
  /\ pc'[t] = "sp_close"
  /\ HasState(arg[t])
  /\ status'[arg[t]].status = ShuttingDown

C37_IdleStopRechecks ==
  [][\A t \in Tasks :
       SweepStopTakesEffect(t) => arg[t] \in IdleServers]_vars


\* C38: once the reconciliation of a reload has completed, every server
\* whose status is not Stopped and every connection pool belongs to an id of
\* the current registry, also when an acquire or a start for a removed id
\* runs beside the reload.
ReconciliationDone ==
  /\ pc[WatcherThread] = "idle"
  /\ reload.result = "ok"
  /\ reload.pending = {}

C38_NothingRunsOutsideRegistry ==
  ReconciliationDone =>
    \A id \in Ids \ DOMAIN registry :
      StatusOf(id) = Stopped /\ ~HasPool(id)


\* C32: a failed health probe sets the status of the probed server to
\* Unhealthy and changes nothing else: the write of the health sweep touches
\* only a server that is Running at that moment, only its status field, and
\* closes no connection and starts or stops nothing.
HealthWrites == hpc # NoId /\ hpc' = NoId

C32_HealthMarksOnlyRunning ==
  [][HealthWrites =>
       /\ connections' = connections
       /\ pc' = pc
       /\ \A id \in Ids \ {hpc} : StateOf(status', id) = StateOf(status, id)
       /\ StatusIn(status', hpc) # StatusIn(status, hpc)
            => /\ StatusIn(status, hpc) = Running
               /\ status' = [status EXCEPT ![hpc].status = Unhealthy]
     ]_vars


\* C33: a connection that is broken when it is released (its exchange
\* failed) is closed instead of returned: it does not enter the available
\* queue, and its slot is freed so that a replacement can be made under the
\* cap.
C33_BrokenNotRequeued ==
  [][\A c \in Callers :
       (ExchangeFails(c) /\ ~closed[c] /\ HasPool(arg[c]))
         => /\ ~InAvailable(connections'[arg[c]], held[c])
            /\ connections'[arg[c]].connections
                 = connections[arg[c]].connections - 1]_vars


\* The request of caller c times out with its exchange unresolved.
TimesOut(c) ==
  pc[c] = "holding" /\ pc'[c] = "idle" /\ result'[c] = "Timeout"

\* C34: when a request times out, its connection is not released to the
\* pool while its exchange is unresolved: at the step where the caller gets
\* the timeout, the connection does not enter the available queue, from
\* which the next acquire would be handed it.
C34_TimedOutNotRequeued ==
  [][\A c \in Callers :
       (TimesOut(c) /\ ~closed[c] /\ HasPool(arg[c]))
         => ~InAvailable(connections'[arg[c]], held[c])]_vars


\* Caller c is inside get_connection.
Acquiring(c) == op[c] = "acquire" /\ pc[c] \notin {"idle", "holding"}

ManualSwaps ==
  /\ pc[ManualThread] = "idle"
  /\ manual' # manual
  /\ manual'.result \in {"-", "ok"}

InFlight == (\E t \in Threads : pc[t] # "idle") \/ hpc # NoId

====
